---- MODULE Spec2Model ----
(***************************************************************************)
(* The reactive configuration graph of lmfuser: DataLoaderConf            *)
(* (dataloader_config.py), TaskBase / TaskSelector / Tasks (task.py) and  *)
(* TaskConfigBase (ddp/task_config_base.py).                              *)
(* A configuration object is a record; a list-valued field is a sequence  *)
(* of element objects.  Every object carries the identity `id` it was     *)
(* given at construction.  As with id() in Python, an identity is unique  *)
(* among the objects alive at the same time (here: among the objects held *)
(* by one list-valued field): a new object never gets the identity of an  *)
(* object of that field that is alive when the step that constructs it    *)
(* starts.  So "the same object" and "a freshly constructed object" can   *)
(* be told apart across a step, and two list slots holding one shared     *)
(* object are seen as such.  An edit of a field is one atomic step: the   *)
(* declared bound of the field is checked, the value is stored, and every *)
(* method registered with monitor_on for that field runs.                 *)
(***************************************************************************)
EXTENDS Integers, Sequences, FiniteSets, TLC

VARIABLES dlc,       \* the DataLoaderConf instance
          loader,    \* the DataLoader(...) call the last step made, if it made one
          task,      \* the TaskBase (task.py) instance
          selector,  \* the TaskSelector instance
          tasks,     \* the Tasks instance
          tcb,       \* the TaskConfigBase instance
          edits,     \* number of element-value edits made so far
          last       \* the last operation and its outcome

vars == <<dlc, loader, task, selector, tasks, tcb, edits, last>>

(***************************************************************************)
(* Bounds of the model.                                                    *)
(***************************************************************************)
MaxPath == 3         \* num_path is edited to values up to MaxPath
MaxWorkers == 2      \* num_workers is edited to values up to MaxWorkers
MaxDataPath == 2     \* num_train_data_path and num_eval_data_path go up to MaxDataPath
MaxTasks == 2        \* num_tasks is edited to values up to MaxTasks
MaxValueEdits == 1   \* no run edits more than MaxValueEdits element values
MaxRanks == 3        \* num_ranks and rank_idx are edited to values up to MaxRanks

\* None as the value of a string-valued or optional scalar field
None == "None"
\* An optional object (a DataLoader or None) is a sequence of at most one
\* element: << >> is None.
NoObject == << >>

DefaultPath == "Enther the path to the data file."
PathValues == {"a.jsonl"}
\* FloatArg(1.0, min_value=0.0, max_value=1.0): a weight is held in tenths.
DefaultWeight == 10
WeightInputs == {5, 11}
\* IntArg(0, min_value=0) of IndexConf.
IndexInputs == {-1, 1}
IndexFields == {"epoch", "part", "row"}
\* the keyword arguments of _get_train_dataloader and _get_eval_dataloader
\* (batch_size, seed, ..., rank, world_size), passed on as they are
LoaderArgs == {"args"}

(***************************************************************************)
(* Element constructors.                                                   *)
(***************************************************************************)
StrArg(id) == [id |-> id, v |-> DefaultPath]

FloatArg(id) == [id |-> id, v |-> DefaultWeight]

IndexConf(id) == [id |-> id, epoch |-> 0, part |-> 0, row |-> 0]

\* cls(): the default object of class cls, with identity id
Construct(cls, id) ==
    CASE cls = "StrArg" -> StrArg(id)
      [] cls = "FloatArg" -> FloatArg(id)
      [] cls = "IndexConf" -> IndexConf(id)

to_index(idx) == <<idx.epoch, idx.part, idx.row>>

\* The identities of the next k objects constructed while the objects `used`
\* are alive.
RECURSIVE FreshIds(_, _)
FreshIds(used, k) ==
    IF k <= 0 THEN << >>
    ELSE LET x == CHOOSE n \in 1..(Cardinality(used) + 1) :
                      n \notin used /\ \A m \in 1..(n - 1) : m \in used
         IN  <<x>> \o FreshIds(used \cup {x}, k - 1)

\* [cls() for _ in range(k)]: k objects, each constructed separately.
FreshSeq(used, k, cls) ==
    LET ids == FreshIds(used, k) IN [i \in DOMAIN ids |-> Construct(cls, ids[i])]

\* [cls()] * k: one object constructed, referenced from k slots (none for k <= 0).
SharedSeq(used, k, cls) ==
    LET ids == FreshIds(used, 1)
    IN  IF k <= 0 THEN << >> ELSE [i \in 1..k |-> Construct(cls, ids[1])]

\* s[:n] for n >= 0
Slice(s, n) == SubSeq(s, 1, IF n < Len(s) THEN n ELSE Len(s))

Min(a, b) == IF a < b THEN a ELSE b

Ids(s) == {s[i].id : i \in DOMAIN s}

\* s[i].parse(v): the object in slot i takes the value v, which is seen
\* through every slot that holds that object.
SetValue(s, i, v) ==
    [k \in DOMAIN s |-> IF s[k].id = s[i].id THEN [s[k] EXCEPT !.v = v] ELSE s[k]]

(***************************************************************************)
(* DataLoaderConf                                                          *)
(***************************************************************************)
\* [IndexConf()] : a new inner list holding one new IndexConf
NewInnerList(id, idx) == [id |-> id, items |-> <<IndexConf(idx)>>]

\* [[IndexConf()] for _ in range(k)]
NewInnerLists(wis, k) ==
    LET ids == FreshIds(Ids(wis), k)
    IN  [i \in DOMAIN ids |-> NewInnerList(ids[i], 1)]

DataLoaderConf(id) ==
    [ id               |-> id,
      batch_size       |-> 128,
      num_path         |-> 1,
      path_list        |-> <<StrArg(1)>>,
      path_weight      |-> <<FloatArg(1)>>,
      scanner_type     |-> "C4Scanner",
      seed             |-> 42,
      shuffle          |-> TRUE,
      prefetch_factor  |-> 2,
      ignore_error     |-> TRUE,
      qps              |-> None,
      instruct_timeout |-> None,
      worker_timeout   |-> None,
      num_workers      |-> 1,
      num_ranks        |-> 1,
      rank_idx         |-> 0,
      worker_indexes   |-> <<NewInnerList(1, 1)>> ]

\* resize_list without its truncating branch
resize_list_never_truncates(s, num, cls) ==
    IF Len(s) < num THEN s \o FreshSeq(Ids(s), num - Len(s), cls) ELSE s

\* resize_list truncating to the last num elements, s[-num:], instead of s[:num]
resize_list_keeps_the_tail(s, num, cls) ==
    IF Len(s) > num THEN SubSeq(s, Len(s) - num + 1, Len(s))
    ELSE IF Len(s) < num THEN s \o FreshSeq(Ids(s), num - Len(s), cls)
    ELSE s

\* resize_list growing by repeating the last element it holds, s[-1:] * k,
\* instead of constructing defaults
resize_list_repeats_the_last(s, num, cls) ==
    IF Len(s) > num THEN Slice(s, num)
    ELSE IF Len(s) < num
    THEN IF Len(s) = 0 THEN FreshSeq(Ids(s), num, cls)
         ELSE s \o [i \in 1..(num - Len(s)) |-> s[Len(s)]]
    ELSE s

\* The resize of one list of set_path_weight: s[:num] when s is longer than
\* num, s += [cls() for _ in range(num - len(s))] when it is shorter.
resize_list(s, num, cls) ==
    IF Len(s) > num THEN Slice(s, num)
    ELSE IF Len(s) < num THEN s \o FreshSeq(Ids(s), num - Len(s), cls)
    ELSE s

\* monitor_on('num_path')
set_path_weight(c) ==
    [c EXCEPT !.path_weight = resize_list(@, c.num_path, "FloatArg"),
              !.path_list   = resize_list(@, c.num_path, "StrArg")]

\* first half of set_worker_indexes: the outer list follows num_path
resize_outer(wis, num_path) ==
    IF Len(wis) > num_path THEN Slice(wis, num_path)
    ELSE IF Len(wis) < num_path THEN wis \o NewInnerLists(wis, num_path - Len(wis))
    ELSE wis

\* Body of the loop of set_worker_indexes for one inner list.  The slice of
\* the shrinking branch is bound to the loop variable only, so the list held
\* by self.worker_indexes keeps its length; += extends that list in place.
resize_inner(wi, num_worker_per_path) ==
    IF Len(wi.items) > num_worker_per_path THEN wi
    ELSE IF Len(wi.items) < num_worker_per_path
    THEN [wi EXCEPT !.items =
             @ \o FreshSeq(Ids(@), num_worker_per_path - Len(wi.items), "IndexConf")]
    ELSE wi

\* the loop of set_worker_indexes over the inner lists
resize_all_inner(wis, num_worker_per_path) ==
    [p \in DOMAIN wis |-> resize_inner(wis[p], num_worker_per_path)]

\* set_worker_indexes with the two counts taken for each other: the outer
\* list follows num_workers and the inner lists follow num_path
set_worker_indexes_swapped_counts(c) ==
    [c EXCEPT !.worker_indexes =
        resize_all_inner(resize_outer(@, c.num_workers), c.num_path)]

\* monitor_on('num_workers'), monitor_on('num_path')
set_worker_indexes(c) ==
    [c EXCEPT !.worker_indexes =
        resize_all_inner(resize_outer(@, c.num_path), c.num_workers)]

\* the DataLoader(...) call of init_dataloader
init_dataloader(c) ==
    [ batch_size          |-> c.batch_size,
      path_list           |-> [i \in DOMAIN c.path_list |-> c.path_list[i].v],
      scanner_type        |-> c.scanner_type,
      seed                |-> c.seed,
      shuffle             |-> c.shuffle,
      pre_fetch_factor    |-> c.prefetch_factor,
      indexes             |-> [p \in DOMAIN c.worker_indexes |->
                                 [w \in DOMAIN c.worker_indexes[p].items |->
                                    to_index(c.worker_indexes[p].items[w])]],
      ignore_error        |-> c.ignore_error,
      qps                 |-> c.qps,
      instruct_timeout    |-> c.instruct_timeout,
      worker_timeout      |-> c.worker_timeout,
      num_workers         |-> c.num_workers,
      num_ranks           |-> c.num_ranks,
      rank_idx            |-> c.rank_idx,
      distributor_weights |-> [i \in DOMAIN c.path_weight |-> c.path_weight[i].v] ]

\* the record of a step: the field edited or the method called, the value
\* given, the value the field held before, and how the step ended
Op(op, arg, prev, out) == [op |-> op, arg |-> arg, prev |-> prev, out |-> out]

\* num_path declared with min_value=0, as the counts of TaskBase are
num_path_ok_from_zero(n) == n >= 0

\* num_path = IntArg(1, min_value=1)
num_path_ok(n) == n >= 1

\* num_workers = IntArg(1, min_value=1)
num_workers_ok(n) == n >= 1

\* weight fields: FloatArg(1.0, min_value=0.0, max_value=1.0)
weight_ok(w) == w >= 0 /\ w <= 10

\* IndexConf fields: IntArg(0, min_value=0)
index_ok(v) == v >= 0

DlcFrame == UNCHANGED <<task, selector, tasks, tcb>>

\* conf.num_path = n
SetNumPath(n) ==
    /\ DlcFrame /\ UNCHANGED edits
    /\ loader' = NoObject
    /\ IF num_path_ok(n)
       THEN /\ dlc' = set_worker_indexes(set_path_weight([dlc EXCEPT !.num_path = n]))
            /\ last' = Op("num_path", n, dlc.num_path, "ok")
       ELSE /\ UNCHANGED dlc
            /\ last' = Op("num_path", n, dlc.num_path, "ValidationError")

\* conf.num_workers = n
SetNumWorkers(n) ==
    /\ DlcFrame /\ UNCHANGED edits
    /\ loader' = NoObject
    /\ IF num_workers_ok(n)
       THEN /\ dlc' = set_worker_indexes([dlc EXCEPT !.num_workers = n])
            /\ last' = Op("num_workers", n, dlc.num_workers, "ok")
       ELSE /\ UNCHANGED dlc
            /\ last' = Op("num_workers", n, dlc.num_workers, "ValidationError")

\* conf.path_list[i] = v
SetPath(i, v) ==
    /\ DlcFrame
    /\ loader' = NoObject
    /\ i \in DOMAIN dlc.path_list
    /\ edits < MaxValueEdits
    /\ edits' = edits + 1
    /\ dlc' = [dlc EXCEPT !.path_list = SetValue(@, i, v)]
    /\ last' = Op("path_list", 0, 0, "ok")

\* conf.path_weight[i] = w
SetPathWeight(i, w) ==
    /\ DlcFrame
    /\ loader' = NoObject
    /\ i \in DOMAIN dlc.path_weight
    /\ edits < MaxValueEdits
    /\ IF weight_ok(w)
       THEN /\ edits' = edits + 1
            /\ dlc' = [dlc EXCEPT !.path_weight = SetValue(@, i, w)]
            /\ last' = Op("path_weight", 0, 0, "ok")
       ELSE /\ UNCHANGED <<dlc, edits>>
            /\ last' = Op("path_weight", 0, 0, "ValidationError")

\* conf.worker_indexes[p][w].f = v, f one of epoch, part and row
SetIndexField(p, w, f, v) ==
    /\ DlcFrame
    /\ loader' = NoObject
    /\ p \in DOMAIN dlc.worker_indexes
    /\ w \in DOMAIN dlc.worker_indexes[p].items
    /\ edits < MaxValueEdits
    /\ IF index_ok(v)
       THEN /\ edits' = edits + 1
            /\ dlc' = [dlc EXCEPT !.worker_indexes[p].items[w][f] = v]
            /\ last' = Op("worker_indexes", 0, 0, "ok")
       ELSE /\ UNCHANGED <<dlc, edits>>
            /\ last' = Op("worker_indexes", 0, 0, "ValidationError")

\* num_ranks = IntArg(1, min_value=1)
num_ranks_ok(n) == n >= 1

\* rank_idx = IntArg(0, min_value=0)
rank_idx_ok(n) == n >= 0

\* conf.num_ranks = n; no method is registered with monitor_on for num_ranks
SetNumRanks(n) ==
    /\ DlcFrame /\ UNCHANGED edits
    /\ loader' = NoObject
    /\ IF num_ranks_ok(n)
       THEN /\ dlc' = [dlc EXCEPT !.num_ranks = n]
            /\ last' = Op("num_ranks", n, dlc.num_ranks, "ok")
       ELSE /\ UNCHANGED dlc
            /\ last' = Op("num_ranks", n, dlc.num_ranks, "ValidationError")

\* conf.rank_idx = n; no method is registered with monitor_on for rank_idx
SetRankIdx(n) ==
    /\ DlcFrame /\ UNCHANGED edits
    /\ loader' = NoObject
    /\ IF rank_idx_ok(n)
       THEN /\ dlc' = [dlc EXCEPT !.rank_idx = n]
            /\ last' = Op("rank_idx", n, dlc.rank_idx, "ok")
       ELSE /\ UNCHANGED dlc
            /\ last' = Op("rank_idx", n, dlc.rank_idx, "ValidationError")

\* the scalar fields of DataLoaderConf no method is registered for
IntScalars == {"batch_size", "seed", "prefetch_factor", "num_ranks", "rank_idx"}
BoolScalars == {"shuffle", "ignore_error"}
FloatScalars == {"qps", "instruct_timeout", "worker_timeout"}

\* values given to the integer scalars, one of them below every min_value
IntScalarInputs == {-1, 7}
\* values given to qps and the timeouts, written as the float is; those of
\* TooSmallFloats are below min_value=0.1
FloatScalarInputs == {None, "0.5", "0.05"}
TooSmallFloats == {"0.05"}

\* batch_size = IntArg(128, min_value=1), seed = IntArg(42),
\* prefetch_factor = IntArg(2, min_value=0), num_ranks and rank_idx
int_scalar_ok(f, v) ==
    CASE f = "batch_size" -> v >= 1
      [] f = "seed" -> TRUE
      [] f = "prefetch_factor" -> v >= 0
      [] f = "num_ranks" -> num_ranks_ok(v)
      [] f = "rank_idx" -> rank_idx_ok(v)

\* qps, instruct_timeout, worker_timeout:
\* FloatArg(None, min_value=0.1, allow_none=True)
float_scalar_ok(v) == v \notin TooSmallFloats

\* conf.f = v, f an integer field no method is registered for
SetIntScalar(f, v) ==
    /\ DlcFrame
    /\ loader' = NoObject
    /\ edits < MaxValueEdits
    /\ IF int_scalar_ok(f, v)
       THEN /\ edits' = edits + 1
            /\ dlc' = [dlc EXCEPT ![f] = v]
            /\ last' = Op(f, 0, 0, "ok")
       ELSE /\ UNCHANGED <<dlc, edits>>
            /\ last' = Op(f, 0, 0, "ValidationError")

\* conf.f = b, f one of shuffle and ignore_error
SetBoolScalar(f, b) ==
    /\ DlcFrame
    /\ loader' = NoObject
    /\ edits < MaxValueEdits
    /\ edits' = edits + 1
    /\ dlc' = [dlc EXCEPT ![f] = b]
    /\ last' = Op(f, 0, 0, "ok")

\* conf.f = v, f one of qps, instruct_timeout and worker_timeout
SetFloatScalar(f, v) ==
    /\ DlcFrame
    /\ loader' = NoObject
    /\ edits < MaxValueEdits
    /\ IF float_scalar_ok(v)
       THEN /\ edits' = edits + 1
            /\ dlc' = [dlc EXCEPT ![f] = v]
            /\ last' = Op(f, 0, 0, "ok")
       ELSE /\ UNCHANGED <<dlc, edits>>
            /\ last' = Op(f, 0, 0, "ValidationError")

\* conf.init_dataloader()
InitDataloader ==
    /\ DlcFrame /\ UNCHANGED <<dlc, edits>>
    /\ loader' = <<init_dataloader(dlc)>>
    /\ last' = Op("init_dataloader", 0, 0, "ok")

(***************************************************************************)
(* TaskBase (task.py)                                                      *)
(***************************************************************************)
\* cls(), cls a subclass of TaskBase
TaskBase(cls, id) ==
    [ id                   |-> id,
      cls                  |-> cls,
      num_train_data_path  |-> 1,
      train_data_path_list |-> <<StrArg(1)>>,
      train_data_weights   |-> <<FloatArg(1)>>,
      num_eval_data_path   |-> 1,
      eval_data_path_list  |-> <<StrArg(1)>>,
      eval_data_weights    |-> <<FloatArg(1)>>,
      scanner_type         |-> "C4Scanner",
      train_dataloader     |-> NoObject,
      eval_dataloader      |-> NoObject ]

\* set_train_path_list truncating train_data_path_list only
set_train_path_list_keeps_weights(t) ==
    LET num == t.num_train_data_path
    IN  IF Len(t.train_data_path_list) > num
        THEN [t EXCEPT !.train_data_path_list = Slice(@, num)]
        ELSE IF Len(t.train_data_path_list) < num
        THEN [t EXCEPT
                !.train_data_path_list =
                    @ \o SharedSeq(Ids(@), num - Len(t.train_data_path_list), "StrArg"),
                !.train_data_weights =
                    @ \o SharedSeq(Ids(@), num - Len(t.train_data_weights), "FloatArg")]
        ELSE t

\* monitor_on('num_train_data_path')
set_train_path_list(t) ==
    LET num == t.num_train_data_path
    IN  IF Len(t.train_data_path_list) > num
        THEN [t EXCEPT !.train_data_path_list = Slice(@, num),
                       !.train_data_weights   = Slice(@, num)]
        ELSE IF Len(t.train_data_path_list) < num
        THEN [t EXCEPT
                !.train_data_path_list =
                    @ \o SharedSeq(Ids(@), num - Len(t.train_data_path_list), "StrArg"),
                !.train_data_weights =
                    @ \o SharedSeq(Ids(@), num - Len(t.train_data_weights), "FloatArg")]
        ELSE t

\* monitor_on('num_eval_data_path'): the lists grow by num less the length
\* of the train lists
set_eval_path_list(t) ==
    LET num == t.num_eval_data_path
    IN  IF Len(t.eval_data_path_list) > num
        THEN [t EXCEPT !.eval_data_path_list = Slice(@, num),
                       !.eval_data_weights   = Slice(@, num)]
        ELSE IF Len(t.eval_data_path_list) < num
        THEN [t EXCEPT
                !.eval_data_path_list =
                    @ \o SharedSeq(Ids(@), num - Len(t.train_data_path_list), "StrArg"),
                !.eval_data_weights =
                    @ \o SharedSeq(Ids(@), num - Len(t.train_data_weights), "FloatArg")]
        ELSE t

\* the identity of a DataLoader constructed while `other` is cached
NewLoaderId(other) == FreshIds(Ids(other), 1)[1]

Values(s) == [i \in DOMAIN s |-> s[i].v]

\* the DataLoader(...) call of _get_train_dataloader
TrainDataLoader(t, args) ==
    [ id                  |-> NewLoaderId(t.eval_dataloader),
      path_list           |-> Values(t.train_data_path_list),
      distributor_weights |-> Values(t.train_data_weights),
      scanner_type        |-> t.scanner_type,
      args                |-> args ]

\* the DataLoader(...) call of _get_eval_dataloader
EvalDataLoader(t, args) ==
    [ id                  |-> NewLoaderId(t.train_dataloader),
      path_list           |-> Values(t.eval_data_path_list),
      distributor_weights |-> Values(t.eval_data_weights),
      scanner_type        |-> t.scanner_type,
      args                |-> args ]

\* _get_train_dataloader without the test of the cache: a DataLoader is
\* constructed, next to the cached ones, on every call with a count above 0
get_train_dataloader_never_cached(t, args) ==
    IF t.num_train_data_path = 0 THEN t
    ELSE [t EXCEPT !.train_dataloader =
             <<[TrainDataLoader(t, args) EXCEPT
                  !.id = FreshIds(Ids(t.train_dataloader) \cup Ids(t.eval_dataloader), 1)[1]]>>]

\* the task after _get_train_dataloader(**args)
get_train_dataloader(t, args) ==
    IF t.num_train_data_path = 0 THEN t
    ELSE IF t.train_dataloader # NoObject THEN t
    ELSE [t EXCEPT !.train_dataloader = <<TrainDataLoader(t, args)>>]

\* what _get_train_dataloader(**args) returns, t being the task after the call
train_dataloader_result(t) ==
    IF t.num_train_data_path = 0 THEN NoObject ELSE t.train_dataloader

\* the task after _get_eval_dataloader(**args)
get_eval_dataloader(t, args) ==
    IF t.num_eval_data_path = 0 THEN t
    ELSE IF t.eval_dataloader # NoObject THEN t
    ELSE [t EXCEPT !.eval_dataloader = <<EvalDataLoader(t, args)>>]

\* what _get_eval_dataloader(**args) returns, t being the task after the call
eval_dataloader_result(t) ==
    IF t.num_eval_data_path = 0 THEN NoObject ELSE t.eval_dataloader

\* num_train_data_path = IntArg(1, min_value=0)
num_train_data_path_ok(n) == n >= 0

\* num_eval_data_path = IntArg(1, min_value=0)
num_eval_data_path_ok(n) == n >= 0

TaskFrame == UNCHANGED <<dlc, loader, selector, tasks, tcb>>

\* task.num_train_data_path = n
SetNumTrainDataPath(n) ==
    /\ TaskFrame /\ UNCHANGED edits
    /\ IF num_train_data_path_ok(n)
       THEN /\ task' = set_train_path_list([task EXCEPT !.num_train_data_path = n])
            /\ last' = Op("num_train_data_path", n, task.num_train_data_path, "ok")
       ELSE /\ UNCHANGED task
            /\ last' = Op("num_train_data_path", n, task.num_train_data_path,
                          "ValidationError")

\* task.num_eval_data_path = n
SetNumEvalDataPath(n) ==
    /\ TaskFrame /\ UNCHANGED edits
    /\ IF num_eval_data_path_ok(n)
       THEN /\ task' = set_eval_path_list([task EXCEPT !.num_eval_data_path = n])
            /\ last' = Op("num_eval_data_path", n, task.num_eval_data_path, "ok")
       ELSE /\ UNCHANGED task
            /\ last' = Op("num_eval_data_path", n, task.num_eval_data_path,
                          "ValidationError")

\* task.train_data_path_list[i] = v
SetTrainPath(i, v) ==
    /\ TaskFrame
    /\ i \in DOMAIN task.train_data_path_list
    /\ edits < MaxValueEdits
    /\ edits' = edits + 1
    /\ task' = [task EXCEPT !.train_data_path_list = SetValue(@, i, v)]
    /\ last' = Op("train_data_path_list", 0, 0, "ok")

\* task.eval_data_path_list[i] = v
SetEvalPath(i, v) ==
    /\ TaskFrame
    /\ i \in DOMAIN task.eval_data_path_list
    /\ edits < MaxValueEdits
    /\ edits' = edits + 1
    /\ task' = [task EXCEPT !.eval_data_path_list = SetValue(@, i, v)]
    /\ last' = Op("eval_data_path_list", 0, 0, "ok")

\* task.train_data_weights[i] = w
SetTrainWeight(i, w) ==
    /\ TaskFrame
    /\ i \in DOMAIN task.train_data_weights
    /\ edits < MaxValueEdits
    /\ IF weight_ok(w)
       THEN /\ edits' = edits + 1
            /\ task' = [task EXCEPT !.train_data_weights = SetValue(@, i, w)]
            /\ last' = Op("train_data_weights", 0, 0, "ok")
       ELSE /\ UNCHANGED <<task, edits>>
            /\ last' = Op("train_data_weights", 0, 0, "ValidationError")

\* task.eval_data_weights[i] = w
SetEvalWeight(i, w) ==
    /\ TaskFrame
    /\ i \in DOMAIN task.eval_data_weights
    /\ edits < MaxValueEdits
    /\ IF weight_ok(w)
       THEN /\ edits' = edits + 1
            /\ task' = [task EXCEPT !.eval_data_weights = SetValue(@, i, w)]
            /\ last' = Op("eval_data_weights", 0, 0, "ok")
       ELSE /\ UNCHANGED <<task, edits>>
            /\ last' = Op("eval_data_weights", 0, 0, "ValidationError")

\* task._get_train_dataloader(**args)
GetTrainDataloader(args) ==
    /\ TaskFrame /\ UNCHANGED edits
    /\ task' = get_train_dataloader(task, args)
    /\ last' = Op("_get_train_dataloader", 0, 0,
                  IF train_dataloader_result(task') = NoObject THEN "None" ELSE "DataLoader")

\* task._get_eval_dataloader(**args)
GetEvalDataloader(args) ==
    /\ TaskFrame /\ UNCHANGED edits
    /\ task' = get_eval_dataloader(task, args)
    /\ last' = Op("_get_eval_dataloader", 0, 0,
                  IF eval_dataloader_result(task') = NoObject THEN "None" ELSE "DataLoader")

(***************************************************************************)
(* TaskSelector                                                            *)
(***************************************************************************)
\* task_list(): the names of the registered subclasses of TaskBase, Task and
\* the TaskTemp of the program's entry point
task_list == {"Task", "TaskTemp"}

\* TaskSelector()
TaskSelector(id) == [id |-> id, task_name |-> "Task", conf |-> TaskBase("Task", 1)]

\* the identity of a task constructed while sel.conf is alive
NewConfId(sel) == FreshIds({sel.conf.id}, 1)[1]

\* whether TaskBase.all_subclass_map()[name] of change_conf raises KeyError
change_conf_raises(sel) ==
    /\ sel.task_name # None
    /\ sel.task_name # sel.conf.cls
    /\ sel.task_name \notin task_list

\* change_conf without the comparison with the class of the current conf
change_conf_always_constructs(sel) ==
    LET name == sel.task_name
    IN  IF name = None THEN [sel EXCEPT !.conf = TaskBase("Task", NewConfId(sel))]
        ELSE IF name \in task_list
        THEN [sel EXCEPT !.conf = TaskBase(name, NewConfId(sel))]
        ELSE sel

\* change_conf constructing the default Task whatever the name is
change_conf_always_task(sel) ==
    LET name == sel.task_name
    IN  IF name = None THEN [sel EXCEPT !.conf = TaskBase("Task", NewConfId(sel))]
        ELSE IF name # sel.conf.cls
        THEN IF name \in task_list
             THEN [sel EXCEPT !.conf = TaskBase("Task", NewConfId(sel))]
             ELSE sel
        ELSE sel

\* monitor_on('task_name')
change_conf(sel) ==
    LET name == sel.task_name
    IN  IF name = None THEN [sel EXCEPT !.conf = TaskBase("Task", NewConfId(sel))]
        ELSE IF name # sel.conf.cls
        THEN IF name \in task_list
             THEN [sel EXCEPT !.conf = TaskBase(name, NewConfId(sel))]
             ELSE sel
        ELSE sel

\* a task_name field that takes any string
task_name_ok_any(name) == TRUE

\* task_name = OptionArg(default='Task', option_fn=task_list); None is a
\* value change_conf provides for
task_name_ok(name) == name \in task_list \cup {None}

\* selector.task_name = name, as an operator on the selector
set_task_name(sel, name) == change_conf([sel EXCEPT !.task_name = name])

\* how selector.task_name = name ends
set_task_name_outcome(sel, name) ==
    IF ~task_name_ok(name) THEN "ValidationError"
    ELSE IF change_conf_raises([sel EXCEPT !.task_name = name]) THEN "KeyError"
    ELSE "ok"

SelectorFrame == UNCHANGED <<dlc, loader, task, tasks, tcb>>

\* selector.task_name = name
SetTaskName(name) ==
    /\ SelectorFrame /\ UNCHANGED edits
    /\ selector' = IF task_name_ok(name) THEN set_task_name(selector, name) ELSE selector
    /\ last' = Op("task_name", name, selector.task_name, set_task_name_outcome(selector, name))

\* selector.conf.num_train_data_path = n
SetConfNumTrainDataPath(n) ==
    /\ SelectorFrame /\ UNCHANGED edits
    /\ IF num_train_data_path_ok(n)
       THEN /\ selector' = [selector EXCEPT !.conf =
                               set_train_path_list([@ EXCEPT !.num_train_data_path = n])]
            /\ last' = Op("conf.num_train_data_path", "", "", "ok")
       ELSE /\ UNCHANGED selector
            /\ last' = Op("conf.num_train_data_path", "", "", "ValidationError")

\* selector.conf.train_data_path_list[i] = v
SetConfTrainPath(i, v) ==
    /\ SelectorFrame
    /\ i \in DOMAIN selector.conf.train_data_path_list
    /\ edits < MaxValueEdits
    /\ edits' = edits + 1
    /\ selector' = [selector EXCEPT !.conf.train_data_path_list = SetValue(@, i, v)]
    /\ last' = Op("conf.train_data_path_list", "", "", "ok")

(***************************************************************************)
(* Tasks                                                                   *)
(***************************************************************************)
\* Tasks()
Tasks ==
    [ num_tasks    |-> 1,
      tasks        |-> <<TaskSelector(1)>>,
      task_weights |-> <<FloatArg(1)>> ]

\* [TaskSelector() for _ in range(k)]
NewTaskSelectors(used, k) ==
    LET ids == FreshIds(used, k) IN [i \in DOMAIN ids |-> TaskSelector(ids[i])]

\* Whether change_task_list raises AttributeError: both branches read
\* self.task_weight, an attribute Tasks does not have.
change_task_list_raises(ts) == Len(ts.tasks) # ts.num_tasks

\* monitor_on('num_tasks'): the statements that run before the one that raises
change_task_list(ts) ==
    LET num == ts.num_tasks
    IN  IF Len(ts.tasks) > num THEN [ts EXCEPT !.tasks = Slice(@, num)]
        ELSE IF Len(ts.tasks) < num
        THEN [ts EXCEPT !.tasks = @ \o NewTaskSelectors(Ids(@), num - Len(@))]
        ELSE ts

\* num_tasks = IntArg(1, min_value=1)
num_tasks_ok(n) == n >= 1

TasksFrame == UNCHANGED <<dlc, loader, task, selector, tcb>>

\* tasks.num_tasks = n
SetNumTasks(n) ==
    /\ TasksFrame /\ UNCHANGED edits
    /\ IF num_tasks_ok(n)
       THEN /\ tasks' = change_task_list([tasks EXCEPT !.num_tasks = n])
            /\ last' = Op("num_tasks", n, tasks.num_tasks,
                          IF change_task_list_raises([tasks EXCEPT !.num_tasks = n])
                          THEN "AttributeError" ELSE "ok")
       ELSE /\ UNCHANGED tasks
            /\ last' = Op("num_tasks", n, tasks.num_tasks, "ValidationError")

\* tasks.task_weights[i] = w
SetTaskWeight(i, w) ==
    /\ TasksFrame
    /\ i \in DOMAIN tasks.task_weights
    /\ edits < MaxValueEdits
    /\ IF weight_ok(w)
       THEN /\ edits' = edits + 1
            /\ tasks' = [tasks EXCEPT !.task_weights = SetValue(@, i, w)]
            /\ last' = Op("task_weights", 0, 0, "ok")
       ELSE /\ UNCHANGED <<tasks, edits>>
            /\ last' = Op("task_weights", 0, 0, "ValidationError")

\* tasks.tasks[i].task_name = name
SetTasksTaskName(i, name) ==
    /\ TasksFrame /\ UNCHANGED edits
    /\ i \in DOMAIN tasks.tasks
    /\ tasks' = IF task_name_ok(name)
                THEN [tasks EXCEPT !.tasks[i] = set_task_name(@, name)]
                ELSE tasks
    /\ last' = Op("tasks.task_name", 0, 0, set_task_name_outcome(tasks.tasks[i], name))

(***************************************************************************)
(* TaskConfigBase (ddp/task_config_base.py)                                *)
(***************************************************************************)
\* TaskConfigBase()
TaskConfigBase ==
    [ is_trainable         |-> TRUE,
      is_evaluatable       |-> TRUE,
      train_dataset_config |-> <<DataLoaderConf(1)>>,
      eval_dataset_config  |-> <<DataLoaderConf(1)>> ]

\* the DataLoaderConf() appended to the list s
NewDataLoaderConf(s) == DataLoaderConf(FreshIds(Ids(s), 1)[1])

\* set_train_config without the test of the length of the list
set_train_config_always_appends(c) ==
    IF c.is_trainable
    THEN [c EXCEPT !.train_dataset_config = Append(@, NewDataLoaderConf(@))]
    ELSE [c EXCEPT !.train_dataset_config = << >>]

\* monitor_on('is_trainable')
set_train_config(c) ==
    IF c.is_trainable /\ Len(c.train_dataset_config) = 0
    THEN [c EXCEPT !.train_dataset_config = Append(@, NewDataLoaderConf(@))]
    ELSE IF ~c.is_trainable
    THEN [c EXCEPT !.train_dataset_config = << >>]
    ELSE c

\* monitor_on('is_evaluatable')
set_eval_config(c) ==
    IF c.is_evaluatable /\ Len(c.eval_dataset_config) = 0
    THEN [c EXCEPT !.eval_dataset_config = Append(@, NewDataLoaderConf(@))]
    ELSE IF ~c.is_evaluatable
    THEN [c EXCEPT !.eval_dataset_config = << >>]
    ELSE c

\* conf.num_path = n, n within the declared bound, as an operator on the conf
set_num_path(c, n) == set_worker_indexes(set_path_weight([c EXCEPT !.num_path = n]))

\* conf.num_workers = n, n within the declared bound, as an operator on the conf
set_num_workers(c, n) == set_worker_indexes([c EXCEPT !.num_workers = n])

\* task.num_train_data_path = n, n within the declared bound, as an operator
set_num_train_data_path(t, n) == set_train_path_list([t EXCEPT !.num_train_data_path = n])

\* task.num_eval_data_path = n, n within the declared bound, as an operator
set_num_eval_data_path(t, n) == set_eval_path_list([t EXCEPT !.num_eval_data_path = n])

TcbFrame == UNCHANGED <<dlc, loader, task, selector, tasks, edits>>

\* config.is_trainable = b
SetIsTrainable(b) ==
    /\ TcbFrame
    /\ tcb' = set_train_config([tcb EXCEPT !.is_trainable = b])
    /\ last' = Op("is_trainable", b, tcb.is_trainable, "ok")

\* config.is_evaluatable = b
SetIsEvaluatable(b) ==
    /\ TcbFrame
    /\ tcb' = set_eval_config([tcb EXCEPT !.is_evaluatable = b])
    /\ last' = Op("is_evaluatable", b, tcb.is_evaluatable, "ok")

\* config.train_dataset_config[i].num_path = n
SetTrainConfigNumPath(i, n) ==
    /\ TcbFrame
    /\ i \in DOMAIN tcb.train_dataset_config
    /\ IF num_path_ok(n)
       THEN /\ tcb' = [tcb EXCEPT !.train_dataset_config[i] = set_num_path(@, n)]
            /\ last' = Op("train_dataset_config.num_path", n, tcb.train_dataset_config[i].num_path, "ok")
       ELSE /\ UNCHANGED tcb
            /\ last' = Op("train_dataset_config.num_path", n, tcb.train_dataset_config[i].num_path, "ValidationError")

\* config.eval_dataset_config[i].num_path = n
SetEvalConfigNumPath(i, n) ==
    /\ TcbFrame
    /\ i \in DOMAIN tcb.eval_dataset_config
    /\ IF num_path_ok(n)
       THEN /\ tcb' = [tcb EXCEPT !.eval_dataset_config[i] = set_num_path(@, n)]
            /\ last' = Op("eval_dataset_config.num_path", n, tcb.eval_dataset_config[i].num_path, "ok")
       ELSE /\ UNCHANGED tcb
            /\ last' = Op("eval_dataset_config.num_path", n, tcb.eval_dataset_config[i].num_path, "ValidationError")

Init ==
    /\ dlc = DataLoaderConf(1)
    /\ loader = NoObject
    /\ task = TaskBase("Task", 1)
    /\ selector = TaskSelector(1)
    /\ tasks = Tasks
    /\ tcb = TaskConfigBase
    /\ edits = 0
    /\ last = Op("init", 0, 0, "ok")

DataLoaderNext ==
    \/ \E n \in 0..MaxPath : SetNumPath(n)
    \/ \E n \in 0..MaxWorkers : SetNumWorkers(n)
    \/ \E i \in 1..MaxPath, v \in PathValues : SetPath(i, v)
    \/ \E i \in 1..MaxPath, w \in WeightInputs : SetPathWeight(i, w)
    \/ \E p \in 1..MaxPath, w \in 1..MaxWorkers, f \in IndexFields, v \in IndexInputs :
           SetIndexField(p, w, f, v)
    \/ InitDataloader

DataLoaderSpec == Init /\ [][DataLoaderNext]_vars

RankNext ==
    \/ \E n \in 0..MaxRanks : SetNumRanks(n)
    \/ \E n \in (0 - 1)..MaxRanks : SetRankIdx(n)
    \/ InitDataloader

\* a DataLoaderConf whose rank fields are edited
RankSpec == Init /\ [][RankNext]_vars

TaskNext ==
    \/ \E n \in (0 - 1)..MaxDataPath : SetNumTrainDataPath(n)
    \/ \E n \in (0 - 1)..MaxDataPath : SetNumEvalDataPath(n)
    \/ \E i \in 1..MaxDataPath, v \in PathValues : SetTrainPath(i, v)
    \/ \E i \in 1..(2 * MaxDataPath), v \in PathValues : SetEvalPath(i, v)
    \/ \E i \in 1..MaxDataPath, w \in WeightInputs : SetTrainWeight(i, w)
    \/ \E i \in 1..(2 * MaxDataPath), w \in WeightInputs : SetEvalWeight(i, w)

\* a task whose counts and list elements are edited
TaskSpec == Init /\ [][TaskNext]_vars

TaskLoaderNext ==
    \/ \E n \in (0 - 1)..MaxDataPath : SetNumTrainDataPath(n)
    \/ \E n \in (0 - 1)..MaxDataPath : SetNumEvalDataPath(n)
    \/ \E a \in LoaderArgs : GetTrainDataloader(a)
    \/ \E a \in LoaderArgs : GetEvalDataloader(a)

\* a task whose counts are edited and whose data loaders are asked for
TaskLoaderSpec == Init /\ [][TaskLoaderNext]_vars

CountsNext ==
    \/ \E n \in 0..MaxPath : SetNumPath(n)
    \/ \E n \in 0..MaxWorkers : SetNumWorkers(n)
    \/ \E n \in (0 - 1)..MaxDataPath : SetNumTrainDataPath(n)
    \/ \E n \in (0 - 1)..MaxDataPath : SetNumEvalDataPath(n)

\* a DataLoaderConf and a task of which only the counts are edited
CountsSpec == Init /\ [][CountsNext]_vars

FrameNext ==
    \/ \E n \in 0..MaxPath : SetNumPath(n)
    \/ \E n \in 0..MaxWorkers : SetNumWorkers(n)
    \/ \E f \in IntScalars, v \in IntScalarInputs : SetIntScalar(f, v)
    \/ \E f \in BoolScalars, b \in BOOLEAN : SetBoolScalar(f, b)
    \/ \E f \in FloatScalars, v \in FloatScalarInputs : SetFloatScalar(f, v)
    \/ \E p \in 1..MaxPath, w \in 1..MaxWorkers, v \in IndexInputs :
           SetIndexField(p, w, "row", v)

\* a DataLoaderConf whose counts, scalar fields and resume positions are edited
FrameSpec == Init /\ [][FrameNext]_vars

BoundsNext ==
    \/ \E n \in (0 - 1)..MaxPath : SetNumPath(n)
    \/ \E n \in (0 - 1)..MaxWorkers : SetNumWorkers(n)
    \/ \E i \in 1..MaxPath, v \in PathValues : SetPath(i, v)
    \/ \E n \in (0 - 1)..MaxTasks : SetNumTasks(n)
    \/ \E i \in 1..MaxTasks, w \in WeightInputs : SetTaskWeight(i, w)

\* a DataLoaderConf and a Tasks whose counts are given values on both sides
\* of their declared bounds
BoundsSpec == Init /\ [][BoundsNext]_vars

AllLoadersNext ==
    \/ \E n \in 1..MaxDataPath : SetNumPath(n)
    \/ InitDataloader
    \/ \E n \in 0..MaxDataPath : SetNumTrainDataPath(n)
    \/ \E n \in 0..MaxDataPath : SetNumEvalDataPath(n)
    \/ \E a \in LoaderArgs : GetTrainDataloader(a)
    \/ \E a \in LoaderArgs : GetEvalDataloader(a)

\* a DataLoaderConf and a task whose path counts are edited and whose data
\* loaders are constructed
AllLoadersSpec == Init /\ [][AllLoadersNext]_vars

TaskNameInputs == task_list \cup {None, "NoSuchTask"}

SelectorNext ==
    \/ \E name \in TaskNameInputs : SetTaskName(name)
    \/ \E n \in (0 - 1)..MaxDataPath : SetConfNumTrainDataPath(n)
    \/ \E i \in 1..MaxDataPath, v \in PathValues : SetConfTrainPath(i, v)

SelectorSpec == Init /\ [][SelectorNext]_vars

TasksNext ==
    \/ \E n \in 0..MaxTasks : SetNumTasks(n)
    \/ \E i \in 1..MaxTasks, w \in WeightInputs : SetTaskWeight(i, w)
    \/ \E i \in 1..MaxTasks, name \in TaskNameInputs : SetTasksTaskName(i, name)

TasksSpec == Init /\ [][TasksNext]_vars

TaskConfigNext ==
    \/ \E b \in BOOLEAN : SetIsTrainable(b)
    \/ \E b \in BOOLEAN : SetIsEvaluatable(b)
    \/ \E n \in 0..MaxPath : SetTrainConfigNumPath(1, n)
    \/ \E n \in 0..MaxPath : SetEvalConfigNumPath(1, n)

TaskConfigSpec == Init /\ [][TaskConfigNext]_vars

(***************************************************************************)
(* The add_dependency declarations, as edges <<upstream, downstream>>      *)
(***************************************************************************)
DataLoaderConf_dependencies ==
    { <<"num_workers", "worker_indexes">>, <<"num_path", "worker_indexes">>,
      <<"num_path", "path_list">>, <<"num_path", "path_weight">> }

TaskBase_dependencies ==
    { <<"num_train_data_path", "train_data_path_list">>,
      <<"num_train_data_path", "train_data_weights">> }

TaskSelector_dependencies == { <<"conf", "task_name">> }

Tasks_dependencies == { <<"num_tasks", "tasks">> }

TaskConfigBase_dependencies ==
    { <<"is_trainable", "train_dataset_config">>,
      <<"is_evaluatable", "eval_dataset_config">> }

(***************************************************************************)
(* Properties                                                              *)
(***************************************************************************)
Distinct(s) == \A i, j \in DOMAIN s : i # j => s[i].id # s[j].id

\* the first n elements of old are the first elements of new, the same
\* objects with the same values
PrefixKept(old, new, n) ==
    \A i \in 1..Min(Len(old), n) : i \in DOMAIN new /\ new[i] = old[i]

\* C1: in DataLoaderConf, path_list and path_weight both have exactly
\* num_path elements once the rules of an edit of num_path have run.
C1_PathListsFollowNumPath ==
    /\ Len(dlc.path_list) = dlc.num_path
    /\ Len(dlc.path_weight) = dlc.num_path

\* num_path went from 3 to 1 and both lists were cut to one element
C1_Witness ==
    /\ last.op = "num_path" /\ last.out = "ok"
    /\ last.prev = 3 /\ dlc.num_path = 1
    /\ Len(dlc.path_list) = 1 /\ Len(dlc.path_weight) = 1

\* C2: in DataLoaderConf, worker_indexes has num_path inner lists and every
\* inner list has num_workers elements once set_worker_indexes has run.
C2_WorkerIndexesShape ==
    /\ Len(dlc.worker_indexes) = dlc.num_path
    /\ \A p \in DOMAIN dlc.worker_indexes :
           Len(dlc.worker_indexes[p].items) = dlc.num_workers

\* C3: in Tasks, an accepted edit of num_tasks ends without error with
\* tasks and task_weights both of num_tasks elements.
C3_TaskListsFollowNumTasks ==
    (last.op = "num_tasks" /\ last.out # "ValidationError") =>
        /\ last.out = "ok"
        /\ Len(tasks.tasks) = tasks.num_tasks
        /\ Len(tasks.task_weights) = tasks.num_tasks

\* C4: in TaskBase, after an accepted edit of num_eval_data_path the eval
\* lists both have num_eval_data_path elements, whatever the train lists hold.
C4_EvalListsFollowNumEval ==
    (last.op = "num_eval_data_path" /\ last.out = "ok") =>
        /\ Len(task.eval_data_path_list) = task.num_eval_data_path
        /\ Len(task.eval_data_weights) = task.num_eval_data_path

\* C5: an edit of num_path or num_workers leaves every element of path_list,
\* path_weight, the outer worker_indexes list and each inner list that lies
\* below both the old length and the new count the same object with the same
\* values.
C5_ResizeKeepsPrefix ==
    [][ last'.op \in {"num_path", "num_workers"} =>
        /\ PrefixKept(dlc.path_list, dlc'.path_list, dlc'.num_path)
        /\ PrefixKept(dlc.path_weight, dlc'.path_weight, dlc'.num_path)
        /\ \A p \in 1..Min(Len(dlc.worker_indexes), dlc'.num_path) :
              /\ p \in DOMAIN dlc'.worker_indexes
              /\ dlc'.worker_indexes[p].id = dlc.worker_indexes[p].id
              /\ PrefixKept(dlc.worker_indexes[p].items,
                            dlc'.worker_indexes[p].items, dlc'.num_workers) ]_vars

\* num_path was lowered and the path that stays is one the user had set
C5_Witness ==
    /\ last.op = "num_path" /\ last.out = "ok"
    /\ last.prev > dlc.num_path
    /\ dlc.path_list[1].v = "a.jsonl"

\* C6: the elements a reshape rule appends are objects of their own: no two
\* slots of a list of TaskBase hold the same object.
C6_AppendedAreDistinct ==
    /\ Distinct(task.train_data_path_list)
    /\ Distinct(task.train_data_weights)
    /\ Distinct(task.eval_data_path_list)
    /\ Distinct(task.eval_data_weights)

\* C7: setting task_name to the class name of the current conf leaves conf
\* the same instance with all its fields.
C7_SameNameKeepsConf ==
    [][ (last'.op = "task_name" /\ last'.arg = selector.conf.cls) =>
            selector'.conf = selector.conf ]_vars

\* the active name was selected again on a conf the user had edited
C7_Witness ==
    /\ last.op = "task_name" /\ last.out = "ok"
    /\ last.arg = selector.conf.cls
    /\ selector.conf.num_train_data_path = 2
    /\ selector.conf.train_data_path_list[1].v = "a.jsonl"

C9_UnknownNameRejected ==
    [][ (last'.op = "task_name" /\ last'.arg \notin task_list \cup {None}) =>
            /\ last'.out = "ValidationError"
            /\ selector' = selector ]_vars

\* an unregistered name was given to a selector whose conf the user had edited
C9_Witness ==
    /\ last.op = "task_name" /\ last.arg = "NoSuchTask"
    /\ last.out = "ValidationError"
    /\ selector.task_name = "TaskTemp"
    /\ selector.conf.num_train_data_path = 2

\* C10: every DataLoader constructed got a path_list of at least one element.
C10_NoEmptyPathList ==
    /\ \A i \in DOMAIN loader : Len(loader[i].path_list) >= 1
    /\ \A i \in DOMAIN task.train_dataloader :
           Len(task.train_dataloader[i].path_list) >= 1
    /\ \A i \in DOMAIN task.eval_dataloader :
           Len(task.eval_dataloader[i].path_list) >= 1

\* the DataLoader(...) call r got as many weights as paths
OneWeightPerPath(r) == Len(r.distributor_weights) = Len(r.path_list)

\* C11: a configuration holds one weight per path, in DataLoaderConf and for
\* the train and the eval lists of TaskBase, and every DataLoader constructed
\* got distributor_weights and path_list of equal length.
C11_OneWeightPerPath ==
    /\ Len(dlc.path_weight) = Len(dlc.path_list)
    /\ Len(task.train_data_weights) = Len(task.train_data_path_list)
    /\ Len(task.eval_data_weights) = Len(task.eval_data_path_list)
    /\ \A i \in DOMAIN loader : OneWeightPerPath(loader[i])
    /\ \A i \in DOMAIN task.train_dataloader : OneWeightPerPath(task.train_dataloader[i])
    /\ \A i \in DOMAIN task.eval_dataloader : OneWeightPerPath(task.eval_dataloader[i])

\* the three loaders were constructed, after the lists had been resized
C11_Witness ==
    /\ Len(loader) = 1 /\ Len(loader[1].path_list) = 2
    /\ Len(task.train_dataloader) = 1 /\ Len(task.train_dataloader[1].path_list) = 2
    /\ Len(task.eval_dataloader) = 1 /\ Len(task.eval_dataloader[1].path_list) = 3

\* C12: every DataLoader request of init_dataloader has rank_idx < num_ranks,
\* whatever accepted edits of rank_idx and num_ranks came before.
C12_RankBelowNumRanks ==
    \A i \in DOMAIN loader : loader[i].rank_idx < loader[i].num_ranks

\* the entries of path_list that were never given a path
UnsetPaths(c) == {i \in DOMAIN c.path_list : c.path_list[i].v = DefaultPath}

\* C13: init_dataloader on a DataLoaderConf with an entry of path_list that
\* was never given a path constructs no DataLoader and ends in an error.
C13_UnsetPathRefused ==
    (last.op = "init_dataloader" /\ UnsetPaths(dlc) # {}) =>
        /\ loader = NoObject
        /\ last.out # "ok"

\* the length of every list num_path and num_workers govern
DlcLengths(c) ==
    << Len(c.path_list), Len(c.path_weight),
       [p \in DOMAIN c.worker_indexes |-> Len(c.worker_indexes[p].items)] >>

\* the length of every list num_train_data_path and num_eval_data_path govern
TaskLengths(t) ==
    << Len(t.train_data_path_list), Len(t.train_data_weights),
       Len(t.eval_data_path_list), Len(t.eval_data_weights) >>

\* C14: two count edits applied to a freshly defaulted tree give the same
\* list lengths in either order, for num_path and num_workers of
\* DataLoaderConf and for num_train_data_path and num_eval_data_path of
\* TaskBase: when the second edit is made on a tree that got only the first,
\* the lengths are those of the fresh tree edited in the other order.
C14_CountEditsCommute ==
    [][ /\ ( /\ last'.op = "num_workers" /\ last'.out = "ok"
             /\ dlc = set_num_path(DataLoaderConf(1), dlc.num_path) ) =>
            DlcLengths(dlc') =
                DlcLengths(set_num_path(set_num_workers(DataLoaderConf(1), dlc'.num_workers),
                                        dlc.num_path))
        /\ ( /\ last'.op = "num_path" /\ last'.out = "ok"
             /\ dlc = set_num_workers(DataLoaderConf(1), dlc.num_workers) ) =>
            DlcLengths(dlc') =
                DlcLengths(set_num_workers(set_num_path(DataLoaderConf(1), dlc'.num_path),
                                           dlc.num_workers))
        /\ ( /\ last'.op = "num_eval_data_path" /\ last'.out = "ok"
             /\ task = set_num_train_data_path(TaskBase("Task", 1), task.num_train_data_path) ) =>
            TaskLengths(task') =
                TaskLengths(set_num_train_data_path(
                                set_num_eval_data_path(TaskBase("Task", 1),
                                                       task'.num_eval_data_path),
                                task.num_train_data_path))
        /\ ( /\ last'.op = "num_train_data_path" /\ last'.out = "ok"
             /\ task = set_num_eval_data_path(TaskBase("Task", 1), task.num_eval_data_path) ) =>
            TaskLengths(task') =
                TaskLengths(set_num_eval_data_path(
                                set_num_train_data_path(TaskBase("Task", 1),
                                                        task'.num_train_data_path),
                                task.num_eval_data_path)) ]_vars

\* C15: between edits every node is at a fixed point of its reshape rules:
\* running a rule again changes no list length, no element and no child
\* instance.
C15_RulesAtFixedPoint ==
    /\ set_path_weight(dlc) = dlc
    /\ set_worker_indexes(dlc) = dlc
    /\ set_train_path_list(task) = task
    /\ set_eval_path_list(task) = task
    /\ change_conf(selector) = selector
    /\ change_task_list(tasks) = tasks
    /\ set_train_config(tcb) = tcb
    /\ set_eval_config(tcb) = tcb

\* the fields of a node to which the step from old to new wrote a new value
Written(old, new) == {f \in DOMAIN old : old[f] # new[f]}

\* every field written by the rules of trigger, trigger itself apart, is
\* declared downstream of trigger and not upstream of it
WritesDownstream(trigger, written, dependencies) ==
    \A f \in written \ {trigger} :
        /\ <<trigger, f>> \in dependencies
        /\ <<f, trigger>> \notin dependencies

\* C16: the rules an edit of a field triggers write only to fields that an
\* add_dependency edge declares downstream of that field, and to none
\* declared upstream of it, in DataLoaderConf, TaskBase, TaskSelector, Tasks
\* and TaskConfigBase.
C16_RulesWriteDownstream ==
    [][ /\ last'.op \in {"num_path", "num_workers"} =>
               WritesDownstream(last'.op, Written(dlc, dlc'), DataLoaderConf_dependencies)
        /\ last'.op \in {"num_train_data_path", "num_eval_data_path"} =>
               WritesDownstream(last'.op, Written(task, task'), TaskBase_dependencies)
        /\ last'.op = "task_name" =>
               WritesDownstream(last'.op, Written(selector, selector'),
                                TaskSelector_dependencies)
        /\ last'.op = "num_tasks" =>
               WritesDownstream(last'.op, Written(tasks, tasks'), Tasks_dependencies)
        /\ last'.op \in {"is_trainable", "is_evaluatable"} =>
               WritesDownstream(last'.op, Written(tcb, tcb'), TaskConfigBase_dependencies)
      ]_vars

\* C17: an edit of num_path or num_workers of DataLoaderConf, or of num_tasks
\* of Tasks, to a value below 1 is rejected and leaves the node as it was:
\* the count, the lists and their elements.
C17_RejectedEditChangesNothing ==
    [][ /\ (last'.op \in {"num_path", "num_workers"} /\ last'.arg < 1) =>
               (last'.out = "ValidationError" /\ dlc' = dlc)
        /\ (last'.op = "num_tasks" /\ last'.arg < 1) =>
               (last'.out = "ValidationError" /\ tasks' = tasks) ]_vars

\* num_path = 0 was rejected on a conf with three paths, one of them set
C17_Witness ==
    /\ last.op = "num_path" /\ last.arg = 0 /\ last.out = "ValidationError"
    /\ dlc.num_path = 3 /\ Len(dlc.path_list) = 3
    /\ dlc.path_list[2].v = "a.jsonl"
    /\ Len(tasks.tasks) = 2

\* the elements of new after the first k are objects constructed by the
\* step, each on its own, and hold the defaults of cls
AppendedAreNewDefaults(old, new, k, cls) ==
    \A i \in (k + 1)..Len(new) :
        /\ new[i].id \notin Ids(old)
        /\ new[i] = Construct(cls, new[i].id)
        /\ \A j \in (k + 1)..Len(new) : j # i => new[j].id # new[i].id

\* C18: when num_path is raised from k to n, the entries k..n-1 of
\* path_list, path_weight and worker_indexes are newly constructed default
\* elements, whatever was truncated from those positions before, and the
\* entries 0..k-1 are the ones the lists held.
C18_GrowthConstructsDefaults ==
    [][ (last'.op = "num_path" /\ last'.out = "ok" /\ last'.arg > last'.prev) =>
        LET k == last'.prev
            n == last'.arg
        IN  /\ Len(dlc'.path_list) = n /\ Len(dlc'.path_weight) = n
            /\ Len(dlc'.worker_indexes) = n
            /\ AppendedAreNewDefaults(dlc.path_list, dlc'.path_list, k, "StrArg")
            /\ AppendedAreNewDefaults(dlc.path_weight, dlc'.path_weight, k, "FloatArg")
            /\ \A p \in (k + 1)..n :
                  /\ dlc'.worker_indexes[p].id \notin Ids(dlc.worker_indexes)
                  /\ Len(dlc'.worker_indexes[p].items) = dlc'.num_workers
                  /\ AppendedAreNewDefaults(<< >>, dlc'.worker_indexes[p].items, 0,
                                            "IndexConf")
            /\ \A i \in 1..k :
                  /\ dlc'.path_list[i] = dlc.path_list[i]
                  /\ dlc'.path_weight[i] = dlc.path_weight[i]
                  /\ dlc'.worker_indexes[i] = dlc.worker_indexes[i] ]_vars

\* num_path went back from 1 to 3 after an element beyond the first had been
\* given a value and truncated: every element holds its default again
C18_Witness ==
    /\ last.op = "num_path" /\ last.out = "ok"
    /\ last.prev = 1 /\ last.arg = 3
    /\ edits = 1
    /\ \A i \in DOMAIN dlc.path_list : dlc.path_list[i].v = DefaultPath
    /\ \A i \in DOMAIN dlc.path_weight : dlc.path_weight[i].v = DefaultWeight
    /\ \A p \in DOMAIN dlc.worker_indexes : \A w \in DOMAIN dlc.worker_indexes[p].items :
           to_index(dlc.worker_indexes[p].items[w]) = <<0, 0, 0>>

\* C19: in TaskConfigBase, train_dataset_config is empty exactly when
\* is_trainable is false and eval_dataset_config exactly when is_evaluatable
\* is false; setting a flag to true over a list that is not empty leaves the
\* list and its entries as they were; and an edit of one flag leaves the
\* other flag and the other list as they were.
C19_FlagsGovernConfigLists ==
    [][ /\ (Len(tcb'.train_dataset_config) = 0) <=> ~tcb'.is_trainable
        /\ (Len(tcb'.eval_dataset_config) = 0) <=> ~tcb'.is_evaluatable
        /\ last'.op = "is_trainable" =>
              /\ (tcb'.is_trainable /\ Len(tcb.train_dataset_config) > 0) =>
                     tcb'.train_dataset_config = tcb.train_dataset_config
              /\ tcb'.eval_dataset_config = tcb.eval_dataset_config
              /\ tcb'.is_evaluatable = tcb.is_evaluatable
        /\ last'.op = "is_evaluatable" =>
              /\ (tcb'.is_evaluatable /\ Len(tcb.eval_dataset_config) > 0) =>
                     tcb'.eval_dataset_config = tcb.eval_dataset_config
              /\ tcb'.train_dataset_config = tcb.train_dataset_config
              /\ tcb'.is_trainable = tcb.is_trainable ]_vars

\* is_trainable was set to true again over an entry the user had edited,
\* while is_evaluatable is false
C19_Witness ==
    /\ last.op = "is_trainable" /\ last.arg = TRUE /\ last.prev = TRUE
    /\ Len(tcb.train_dataset_config) = 1
    /\ tcb.train_dataset_config[1].num_path = 3
    /\ ~tcb.is_evaluatable /\ Len(tcb.eval_dataset_config) = 0

\* C20: a task constructs at most one train and at most one eval DataLoader:
\* a cached loader is never replaced, so every result that is not None is
\* that one object; the two caches never hold the same object; and a call
\* returns None exactly when its count is 0 at the time of the call, cached
\* loader or not, and then leaves the cache as it was.
C20_OneLoaderPerKind ==
    [][ /\ task.train_dataloader # NoObject => task'.train_dataloader = task.train_dataloader
        /\ task.eval_dataloader # NoObject => task'.eval_dataloader = task.eval_dataloader
        /\ Len(task'.train_dataloader) <= 1 /\ Len(task'.eval_dataloader) <= 1
        /\ Ids(task'.train_dataloader) \cap Ids(task'.eval_dataloader) = {}
        /\ last'.op = "_get_train_dataloader" =>
              /\ (last'.out = "None") <=> (task.num_train_data_path = 0)
              /\ last'.out = "None" => task' = task
              /\ last'.out # "None" => Len(task'.train_dataloader) = 1
              /\ task'.eval_dataloader = task.eval_dataloader
        /\ last'.op = "_get_eval_dataloader" =>
              /\ (last'.out = "None") <=> (task.num_eval_data_path = 0)
              /\ last'.out = "None" => task' = task
              /\ last'.out # "None" => Len(task'.eval_dataloader) = 1
              /\ task'.train_dataloader = task.train_dataloader ]_vars

\* _get_train_dataloader returned None with a train loader cached, built
\* when the task had two train paths, and an eval loader cached beside it
C20_Witness ==
    /\ last.op = "_get_train_dataloader" /\ last.out = "None"
    /\ task.num_train_data_path = 0
    /\ Len(task.train_dataloader) = 1
    /\ Len(task.train_dataloader[1].path_list) = 2
    /\ Len(task.eval_dataloader) = 1

\* the fields of a DataLoaderConf that no count governs
Scalars(c) ==
    << c.batch_size, c.seed, c.shuffle, c.prefetch_factor, c.ignore_error,
       c.qps, c.instruct_timeout, c.worker_timeout, c.num_ranks, c.rank_idx,
       c.scanner_type >>

\* C21: in DataLoaderConf an edit of num_workers leaves path_list,
\* path_weight and the number of inner lists of worker_indexes as they were;
\* an edit of num_path leaves every retained inner list of worker_indexes as
\* it was, its length and its elements; and neither edit changes a scalar
\* field or the other count.
C21_CountEditFrame ==
    [][ /\ last'.op = "num_workers" =>
              /\ dlc'.path_list = dlc.path_list
              /\ dlc'.path_weight = dlc.path_weight
              /\ Len(dlc'.worker_indexes) = Len(dlc.worker_indexes)
              /\ dlc'.num_path = dlc.num_path
              /\ Scalars(dlc') = Scalars(dlc)
        /\ last'.op = "num_path" =>
              /\ \A p \in 1..Min(Len(dlc.worker_indexes), Len(dlc'.worker_indexes)) :
                     dlc'.worker_indexes[p] = dlc.worker_indexes[p]
              /\ dlc'.num_workers = dlc.num_workers
              /\ Scalars(dlc') = Scalars(dlc) ]_vars

\* num_workers was raised on a conf with three paths and a timeout set
C21_Witness ==
    /\ last.op = "num_workers" /\ last.out = "ok"
    /\ last.prev = 1 /\ last.arg = 2
    /\ dlc.num_path = 3 /\ Len(dlc.path_list) = 3 /\ Len(dlc.worker_indexes) = 3
    /\ dlc.worker_timeout = "0.5"

====
